---------------------------- MODULE Spec2Model ----------------------------
(***************************************************************************)
(* Production / forecast reconciliation pipeline:                          *)
(*   analytical_engine.py : fit_decline_curve, arps_exponential,           *)
(*                          build_reconciliation_table                     *)
(*   business_logic.py    : calculate_fiscal_impact, run_governance_audit, *)
(*                          generate_fiscal_summary, sensitivity_sweep     *)
(*                                                                         *)
(* Number representation (the code uses IEEE doubles):                     *)
(*   - quantities (BOE) are integers; prices and money amounts are         *)
(*     integers in units of 0.50 GBP (145 is 72.50 GBP/bbl);               *)
(*   - variance_pct and threshold_pct are fixed point, in thousandths of   *)
(*     a percent (15000 is 15.000 %), so that round(x, 2) of the code is   *)
(*     a real conversion: it keeps hundredths of a percent;                *)
(*   - di is in thousandths per month (50 is 0.050).                       *)
(*                                                                         *)
(* Spec is one pipeline run, call by call.  SpecRuns is two runs in one    *)
(* process whose calls interleave while the ambient clock advances.        *)
(***************************************************************************)
EXTENDS Integers, Sequences, FiniteSets, TLC

VARIABLES
    cleaned_df,        \* the cleaned series handed to the core (rows in time order)
    fit,               \* outcome of fit_decline_curve
    recon_df,          \* table returned by build_reconciliation_table
    fiscal,            \* outcome of calculate_fiscal_impact (status, price, table)
    audit,             \* outcome of run_governance_audit (status, locals, flags)
    summary,           \* outcome of generate_fiscal_summary
    sweep,             \* outcome of sensitivity_sweep (status, scenarios, rows)
    pc,                \* position of the caller in the pipeline
    utcnow,            \* the ambient clock datetime.utcnow(), in ticks
    pipeline_runs      \* the pipeline runs that share one process, by run id

vars == <<cleaned_df, fit, recon_df, fiscal, audit, summary, sweep, pc,
          utcnow, pipeline_runs>>

---------------------------------------------------------------------------
(* Bounds of the model *)

\* longest input series explored
MaxLen == 4

\* monthly total_boe values of the input series; 0 is a shut-in month
TotalBoe == {0, 80000, 100000, 115004, 125000}

\* parameters a fit can return / a caller can pass (qi in BOE, di in 1/1000)
QiSet == {0, 100000}
DiSet == {0, 50}

\* the (qi, di) pairs explored: a zero initial rate is taken with di = 0 only
FitParams == {p \in QiSet \X DiSet : p[1] = 0 => p[2] = 0}

\* price_per_barrel values a caller passes
Prices == {-10, 10, 20}

\* the runs of SpecRuns, and what each is started on: the monthly total_boe
\* series, reconciled against a flat forecast of 100000 BOE
RunIds == {1, 2}
RunSeries == {<<80000, 80000, 80000>>, <<125004, 100000, 80000>>, <<0, 115004>>}
RunPrices == {10, 20}

\* readings of the ambient clock
Ticks == {0, 1}

---------------------------------------------------------------------------
(* Program constants *)

\* business_logic.py:42  GOVERNANCE_VARIANCE_THRESHOLD_PCT = 15.0
GOVERNANCE_VARIANCE_THRESHOLD_PCT == 15000

\* threshold_pct values a caller passes (the default among them)
Thresholds == {0, GOVERNANCE_VARIANCE_THRESHOLD_PCT, 20000}
RunThresholds == {GOVERNANCE_VARIANCE_THRESHOLD_PCT, 20000}

---------------------------------------------------------------------------
(* Arithmetic helpers *)

Abs(x) == IF x < 0 THEN -x ELSE x

\* Python round(x, 2) on a value held in thousandths: nearest hundredth,
\* ties to even; the sign is kept (rounding is symmetric)
RoundAbs2(m) ==
    LET q == m \div 10
        r == m % 10
    IN  IF r < 5 THEN q * 10
        ELSE IF r > 5 THEN (q + 1) * 10
        ELSE IF q % 2 = 0 THEN q * 10 ELSE (q + 1) * 10

Round2(x) == IF x < 0 THEN -RoundAbs2(-x) ELSE RoundAbs2(x)

\* round(x, 1) of a BOE amount and round(x, 2) of a GBP amount: the amounts of
\* this model are whole numbers, which both roundings return unchanged
RoundWhole(x) == x

---------------------------------------------------------------------------
(* data_engineering: the shape of a cleaned row *)

\* flag_shut_in_months + convert_to_boe: a month is shut-in when both streams
\* are at or below 0, which for non-negative streams is total_boe = 0
CleanedRow(i, boe) ==
    [report_month |-> i, total_boe |-> boe, is_shut_in |-> (boe <= 0)]

---------------------------------------------------------------------------
(* analytical_engine.arps_exponential *)

\* np.exp(-di) in thousandths, tabulated for the decline rates 0, 0.05 and 1.0
ExpNegPermille(di) ==
    CASE di = 0    -> 1000
      [] di = 50   -> 951
      [] di = 1000 -> 368

RECURSIVE arps_exponential_DeclineFromFirst(_, _, _)
\* the decline applied once already at t = 0: qi * exp(-di * (t + 1))
arps_exponential_DeclineFromFirst(t, qi, di) ==
    IF t = 0 THEN (qi * ExpNegPermille(di)) \div 1000
    ELSE (arps_exponential_DeclineFromFirst(t - 1, qi, di) * ExpNegPermille(di))
             \div 1000

RECURSIVE arps_exponential(_, _, _)
\* q(t) = qi * exp(-di * t) = qi * exp(-di)^t
arps_exponential(t, qi, di) ==
    IF t = 0 THEN qi
    ELSE (arps_exponential(t - 1, qi, di) * ExpNegPermille(di)) \div 1000

---------------------------------------------------------------------------
(* analytical_engine.fit_decline_curve *)

\* mask = production_series > 0 ; len(t_fit)
ProducingCount(df) ==
    Cardinality({i \in 1..Len(df) : df[i].total_boe > 0})

InsufficientData_Strict(df) == ProducingCount(df) <= 3

\* if len(t_fit) < 3: raise ValueError("Insufficient producing months ...")
InsufficientData(df) == ProducingCount(df) < 3

---------------------------------------------------------------------------
(* What a call leaves in the table its caller passed *)

\* the body written onto the caller's own object
ArgumentAfter_InPlace(argument_df, worked_df) == worked_df

\* df = argument_df.copy(): the body adds its columns to the copy, the
\* caller's table keeps its records, fields and values
ArgumentAfter(argument_df, worked_df) == argument_df

---------------------------------------------------------------------------
(* analytical_engine.build_reconciliation_table *)

\* |variance| / forecast * 100, in thousandths of a percent; the product is
\* taken in two steps so that every intermediate value stays below 2^31
PctOf(abs_variance, forecast_boe) ==
    LET s == abs_variance * 1000
    IN  (s \div forecast_boe) * 100 + ((s % forecast_boe) * 100) \div forecast_boe

\* the division left unguarded: x / 0 is inf in numpy, held here as a value
\* beyond every percentage
VariancePct_Unguarded(variance_boe, forecast_boe) ==
    IF forecast_boe = 0 THEN 999999999
    ELSE IF variance_boe < 0 THEN -PctOf(-variance_boe, forecast_boe)
    ELSE PctOf(variance_boe, forecast_boe)

\* np.where(forecast_boe > 0, (variance_boe / forecast_boe) * 100, 0.0)
VariancePct(variance_boe, forecast_boe) ==
    IF forecast_boe > 0
    THEN IF variance_boe < 0 THEN -PctOf(-variance_boe, forecast_boe)
         ELSE PctOf(variance_boe, forecast_boe)
    ELSE 0

TMonth_FromInput(row, pos) == row.report_month

\* df.reset_index(drop=True); df["t_month"] = np.arange(len(df))
TMonth(row, pos) == pos - 1

VarianceBoe_ZeroWhenShutIn(row, forecast_boe) ==
    IF row.is_shut_in THEN 0 ELSE row.total_boe - forecast_boe

\* df["variance_boe"] = df["actual_boe"] - df["forecast_boe"]
VarianceBoe(row, forecast_boe) == row.total_boe - forecast_boe

ReconRow(row, pos, qi, di) ==
    LET t        == TMonth(row, pos)
        forecast == arps_exponential(t, qi, di)
        variance == VarianceBoe(row, forecast)
    IN  [report_month |-> row.report_month,
         actual_boe   |-> row.total_boe,
         forecast_boe |-> forecast,
         variance_boe |-> variance,
         variance_pct |-> VariancePct(variance, forecast),
         is_shut_in   |-> row.is_shut_in,
         t_month      |-> t]

build_reconciliation_table(df, qi, di) ==
    [pos \in 1..Len(df) |-> ReconRow(df[pos], pos, qi, di)]

---------------------------------------------------------------------------
(* business_logic.calculate_fiscal_impact *)

RevenueExposure_IgnoreShutIn(row, price) == row.variance_boe * price

\* the exposure taken as a magnitude
RevenueExposure_Magnitude(row, price) ==
    IF row.is_shut_in THEN 0 ELSE Abs(row.variance_boe) * price

\* the exposure priced at the module default (72.50 GBP) whatever the argument
RevenueExposure_DefaultPrice(row, price) ==
    IF row.is_shut_in THEN 0 ELSE row.variance_boe * 145

\* np.where(is_shut_in, 0.0, variance_boe * price_per_barrel)
RevenueExposure(row, price) ==
    IF row.is_shut_in THEN 0 ELSE row.variance_boe * price

RECURSIVE CumSum_ResetAtShutIn(_, _, _)
RECURSIVE CumSum(_, _, _)
\* revenue_exposure_gbp.cumsum() up to position i
CumSum_ResetAtShutIn(df, price, i) ==
    IF i = 0 \/ df[i].is_shut_in THEN 0
    ELSE CumSum_ResetAtShutIn(df, price, i - 1) + RevenueExposure(df[i], price)

CumSum(df, price, i) ==
    IF i = 0 THEN 0
    ELSE CumSum(df, price, i - 1) + RevenueExposure(df[i], price)

FiscalRow(df, price, i) ==
    [report_month            |-> df[i].report_month,
     actual_boe              |-> df[i].actual_boe,
     forecast_boe            |-> df[i].forecast_boe,
     variance_boe            |-> df[i].variance_boe,
     variance_pct            |-> df[i].variance_pct,
     is_shut_in              |-> df[i].is_shut_in,
     t_month                 |-> df[i].t_month,
     revenue_exposure_gbp    |-> RevenueExposure(df[i], price),
     cumulative_exposure_gbp |-> CumSum(df, price, i),
     price_per_barrel_gbp    |-> price]

calculate_fiscal_impact(df, price) ==
    [i \in 1..Len(df) |-> FiscalRow(df, price, i)]

---------------------------------------------------------------------------
(* business_logic.run_governance_audit *)

AuditFilter_KeepShutIn(fiscal_df) == fiscal_df

\* audit_df = fiscal_df[~fiscal_df["is_shut_in"]].copy().reset_index(drop=True)
AuditFilter(fiscal_df) == SelectSeq(fiscal_df, LAMBDA r : ~r.is_shut_in)

\* the breach test applied to the month's exposure, which moves with the price
Breaching_ByExposure(row, threshold_pct) ==
    Abs(row.revenue_exposure_gbp) > threshold_pct * 15

\* the comparison turned round
Breaching_Below(row, threshold_pct) == Abs(row.variance_pct) < threshold_pct

Breaching_AtThreshold(row, threshold_pct) == Abs(row.variance_pct) >= threshold_pct

\* breaching_mask = audit_df["variance_pct"].abs() > threshold_pct
Breaching(row, threshold_pct) == Abs(row.variance_pct) > threshold_pct

\* the counter left alone on a non-breaching record
RunStep_NoReset(run_length, val) == IF val THEN run_length + 1 ELSE run_length

\* one turn of the loop over breaching_mask: run_length += 1, or run_length = 0
RunStep(run_length, val) == IF val THEN run_length + 1 ELSE 0

RECURSIVE RunLengthAt(_, _, _)
\* run_length after the loop has consumed the first i rows of audit_df
RunLengthAt(audit_df, threshold_pct, i) ==
    IF i = 0 THEN 0
    ELSE RunStep(RunLengthAt(audit_df, threshold_pct, i - 1),
                 Breaching(audit_df[i], threshold_pct))

\* the list consecutive_runs (column consecutive_flags of audit_df)
ConsecutiveRuns(audit_df, threshold_pct) ==
    [i \in 1..Len(audit_df) |-> RunLengthAt(audit_df, threshold_pct, i)]

\* the magnitude rule tried before the run-length rules
Severity_MagnitudeFirst(consec, abs_var) ==
    IF abs_var > 25000 THEN "MEDIUM"
    ELSE IF consec >= 3 THEN "HIGH"
    ELSE IF consec >= 2 THEN "MEDIUM"
    ELSE "LOW"

Severity_HighFromFour(consec, abs_var) ==
    IF consec >= 4 THEN "HIGH"
    ELSE IF consec >= 2 \/ abs_var > 25000 THEN "MEDIUM"
    ELSE "LOW"

Severity_MediumAtOrAbove25(consec, abs_var) ==
    IF consec >= 3 THEN "HIGH"
    ELSE IF consec >= 2 \/ abs_var >= 25000 THEN "MEDIUM"
    ELSE "LOW"

\* if consec >= 3 ... elif consec >= 2 or abs_var > 25 ... else ...
Severity(consec, abs_var) ==
    IF consec >= 3 THEN "HIGH"
    ELSE IF consec >= 2 \/ abs_var > 25000 THEN "MEDIUM"
    ELSE "LOW"

\* the reason text, kept as its distinguishing parts
FlagReason(row, consec, abs_var) ==
    CASE Severity(consec, abs_var) = "HIGH"   -> <<"SYSTEMATIC", consec>>
      [] Severity(consec, abs_var) = "MEDIUM" -> <<"ELEVATED", abs_var>>
      [] OTHER -> <<"SINGLE BREACH",
                    IF row.variance_boe < 0 THEN "under" ELSE "over", abs_var>>

FlagId_FromRowPosition(audit_df, threshold_pct, idx) == idx

\* the numbering continued from a counter kept for the whole process: the
\* flags the runs of the process hold so far
FlagId_ProcessCounter(audit_df, threshold_pct, idx) ==
    Len(pipeline_runs[1].flags) + Len(pipeline_runs[2].flags)
    + Cardinality({j \in 1..idx : Abs(audit_df[j].variance_pct) > threshold_pct})

\* enumerate(audit_df[breaching_mask].iterrows(), start=1): the flag_id of the
\* breaching row at position idx is its rank among the breaching rows
FlagId(audit_df, threshold_pct, idx) ==
    Cardinality({j \in 1..idx : Breaching(audit_df[j], threshold_pct)})

\* variance_pct=round(row["variance_pct"], 2)
RecordedVariancePct(row) == Round2(row.variance_pct)

\* GovernanceFlag(...) for the breaching row at position idx of audit_df
MakeFlag(audit_df, runs, threshold_pct, idx) ==
    LET row     == audit_df[idx]
        abs_var == Abs(row.variance_pct)
        consec  == runs[idx]
    IN  [flag_id              |-> FlagId(audit_df, threshold_pct, idx),
         report_month         |-> row.report_month,
         actual_boe           |-> RoundWhole(row.actual_boe),
         forecast_boe         |-> RoundWhole(row.forecast_boe),
         variance_boe         |-> RoundWhole(row.variance_boe),
         variance_pct         |-> RecordedVariancePct(row),
         revenue_exposure_gbp |-> RoundWhole(row.revenue_exposure_gbp),
         flag_reason          |-> FlagReason(row, consec, abs_var),
         severity             |-> Severity(consec, abs_var),
         \* field(default_factory=lambda: datetime.utcnow().isoformat()):
         \* read from the ambient clock when the flag is constructed (one
         \* call is shorter than a tick)
         timestamp            |-> utcnow]

RECURSIVE FlagsUpTo(_, _, _, _)
\* the list flags after the flag loop has passed the first i rows of audit_df
FlagsUpTo(audit_df, runs, threshold_pct, i) ==
    IF i = 0 THEN << >>
    ELSE LET before == FlagsUpTo(audit_df, runs, threshold_pct, i - 1)
         IN  IF Breaching(audit_df[i], threshold_pct)
             THEN Append(before, MakeFlag(audit_df, runs, threshold_pct, i))
             ELSE before

AnyBreaching(audit_df, threshold_pct) ==
    \E i \in 1..Len(audit_df) : Breaching(audit_df[i], threshold_pct)

\* the whole call: what it returns and the locals it built on the way
run_governance_audit(fiscal_df, threshold_pct) ==
    LET audit_df == AuditFilter(fiscal_df)
    IN  IF ~AnyBreaching(audit_df, threshold_pct)
        THEN \* if breaching_df.empty: return flags
             [status |-> "returned", threshold_pct |-> threshold_pct,
              audit_df |-> audit_df, consecutive_runs |-> << >>,
              flags |-> << >>]
        ELSE LET runs == ConsecutiveRuns(audit_df, threshold_pct)
             IN  [status |-> "returned", threshold_pct |-> threshold_pct,
                  audit_df |-> audit_df, consecutive_runs |-> runs,
                  flags |-> FlagsUpTo(audit_df, runs, threshold_pct,
                                      Len(audit_df))]

---------------------------------------------------------------------------
(* business_logic.generate_fiscal_summary *)

\* producing = fiscal_df[~fiscal_df["is_shut_in"]]
Producing(fiscal_df) == SelectSeq(fiscal_df, LAMBDA r : ~r.is_shut_in)

RECURSIVE SumVarianceBoe(_, _)
\* df["variance_boe"].sum() over the first i rows
SumVarianceBoe(df, i) ==
    IF i = 0 THEN 0 ELSE SumVarianceBoe(df, i - 1) + df[i].variance_boe

RECURSIVE SumVariancePct(_, _)
\* df["variance_pct"].sum() over the first i rows
SumVariancePct(df, i) ==
    IF i = 0 THEN 0 ELSE SumVariancePct(df, i - 1) + df[i].variance_pct

\* round(producing["variance_pct"].mean(), 2): the mean of no rows is NaN, and
\* round(NaN, 2) is NaN; otherwise the mean in thousandths, then rounded
MeanVariancePct(producing) ==
    IF Len(producing) = 0
    THEN [nan |-> TRUE, value |-> 0]
    ELSE LET total == SumVariancePct(producing, Len(producing))
             mean  == IF total < 0 THEN -((-total) \div Len(producing))
                      ELSE total \div Len(producing)
         IN  [nan |-> FALSE, value |-> Round2(mean)]

TotalVarianceBoe_AllRows(fiscal_df) ==
    RoundWhole(SumVarianceBoe(fiscal_df, Len(fiscal_df)))

\* total_variance_boe=round(producing["variance_boe"].sum(), 1)
TotalVarianceBoe(fiscal_df) ==
    RoundWhole(SumVarianceBoe(Producing(fiscal_df), Len(Producing(fiscal_df))))

\* total_revenue_at_risk_gbp=round(cumulative_exposure_gbp.iloc[-1], 2)
TotalRevenueAtRisk(fiscal_df) ==
    RoundWhole(fiscal_df[Len(fiscal_df)].cumulative_exposure_gbp)

MonthsAnalysed_ProducingOnly(fiscal_df) == Len(Producing(fiscal_df))

\* months_analysed=len(fiscal_df)
MonthsAnalysed(fiscal_df) == Len(fiscal_df)

\* months_shut_in=int(fiscal_df["is_shut_in"].sum())
ShutInCount(fiscal_df) ==
    Cardinality({i \in 1..Len(fiscal_df) : fiscal_df[i].is_shut_in})

\* producing_months=int((~fiscal_df["is_shut_in"]).sum())
ProducingMonths(fiscal_df) ==
    Cardinality({i \in 1..Len(fiscal_df) : ~fiscal_df[i].is_shut_in})

SummaryFails_NoProducing(fiscal_df) == Len(Producing(fiscal_df)) = 0

\* .iloc[-1] of an empty column raises IndexError
SummaryFails(fiscal_df) == Len(fiscal_df) = 0

NoSummary ==
    [status |-> "pending", total_revenue_at_risk_gbp |-> 0,
     total_variance_boe |-> 0, months_analysed |-> 0, months_shut_in |-> 0,
     producing_months |-> 0,
     avg_monthly_variance_pct |-> [nan |-> FALSE, value |-> 0],
     governance_flags |-> << >>, price_per_barrel_gbp |-> 0]

generate_fiscal_summary(fiscal_df, governance_flags, price_per_barrel) ==
    IF SummaryFails(fiscal_df)
    THEN [NoSummary EXCEPT !.status = "IndexError"]
    ELSE [status                    |-> "returned",
          total_revenue_at_risk_gbp |-> TotalRevenueAtRisk(fiscal_df),
          total_variance_boe        |-> TotalVarianceBoe(fiscal_df),
          months_analysed           |-> MonthsAnalysed(fiscal_df),
          months_shut_in            |-> ShutInCount(fiscal_df),
          producing_months          |-> ProducingMonths(fiscal_df),
          avg_monthly_variance_pct  |-> MeanVariancePct(Producing(fiscal_df)),
          governance_flags          |-> governance_flags,
          price_per_barrel_gbp      |-> price_per_barrel]

---------------------------------------------------------------------------
(* business_logic.sensitivity_sweep *)

\* price_scenarios = [55.0, 62.50, 72.50, 82.50, 95.0]
DefaultPriceScenarios == <<110, 125, 145, 165, 190>>

\* the price_scenarios arguments explored; << "None" >> stands for the omitted
\* argument
ScenarioArgs == {<< "None" >>, << >>, <<10, 20>>, <<20, 10>>, <<-10, 10>>}

\* if price_scenarios is None: price_scenarios = [...]
ScenariosOf(arg) == IF arg = << "None" >> THEN DefaultPriceScenarios ELSE arg

SweepRow_FirstRecord(reconciliation_df, price) ==
    [price_per_barrel_gbp      |-> price,
     total_revenue_at_risk_gbp |->
        RoundWhole(calculate_fiscal_impact(reconciliation_df, price)[1]
                       .cumulative_exposure_gbp)]

\* one turn of the loop: the fiscal table at this price, its last cumulative
\* exposure, rounded
SweepRow(reconciliation_df, price) ==
    LET fiscal_df == calculate_fiscal_impact(reconciliation_df, price)
    IN  [price_per_barrel_gbp      |-> price,
         total_revenue_at_risk_gbp |->
            RoundWhole(fiscal_df[Len(fiscal_df)].cumulative_exposure_gbp)]

NoSweep == [status |-> "pending", price_scenarios |-> << >>, rows |-> << >>]

sensitivity_sweep(reconciliation_df, arg) ==
    LET price_scenarios == ScenariosOf(arg)
    IN  IF Len(price_scenarios) > 0 /\ Len(reconciliation_df) = 0
        THEN \* .iloc[-1] of an empty column raises IndexError
             [status |-> "IndexError", price_scenarios |-> price_scenarios,
              rows |-> << >>]
        ELSE [status |-> "returned", price_scenarios |-> price_scenarios,
              rows |-> [k \in 1..Len(price_scenarios) |->
                           SweepRow(reconciliation_df, price_scenarios[k])]]

---------------------------------------------------------------------------
(* State machine: one pipeline run, as dashboard.main and the tests drive it *)

NoFit    == [status |-> "pending", curve_fit_called |-> FALSE, qi |-> 0, di |-> 0]
NoFiscal == [status |-> "pending", price_per_barrel |-> 0, df |-> << >>]
NoAudit  == [status |-> "pending", threshold_pct |-> 0, audit_df |-> << >>,
             consecutive_runs |-> << >>, flags |-> << >>]

\* a run of the process that has not been started
NoRun ==
    [pc |-> "idle", recon_df |-> << >>, price_per_barrel |-> 0,
     threshold_pct |-> 0, fiscal_df |-> << >>, flags |-> << >>,
     summary |-> NoSummary]

Init ==
    /\ \E n \in 0..MaxLen :
         \E boe \in [1..n -> TotalBoe] :
            cleaned_df = [i \in 1..n |-> CleanedRow(i, boe[i])]
    /\ fit = NoFit
    /\ recon_df = << >>
    /\ fiscal = NoFiscal
    /\ audit = NoAudit
    /\ summary = NoSummary
    /\ sweep = NoSweep
    /\ pc = "cleaned"
    /\ utcnow = 0
    /\ pipeline_runs = [r \in RunIds |-> NoRun]

\* fit_decline_curve(cleaned_df["total_boe"], time_index)
FitDeclineCurve ==
    /\ pc = "cleaned"
    /\ pc' = "fitted"
    /\ \/ /\ InsufficientData(cleaned_df)
          /\ fit' = [NoFit EXCEPT !.status = "ValueError"]
       \/ /\ ~InsufficientData(cleaned_df)
          /\ \E p \in FitParams :
                fit' = [status |-> "returned", curve_fit_called |-> TRUE,
                        qi |-> p[1], di |-> p[2]]
       \/ /\ ~InsufficientData(cleaned_df)
          \* curve_fit gives up after maxfev evaluations
          /\ fit' = [NoFit EXCEPT !.status = "RuntimeError",
                                  !.curve_fit_called = TRUE]
    /\ UNCHANGED <<cleaned_df, recon_df, fiscal, audit, summary, sweep,
                   utcnow, pipeline_runs>>

\* build_reconciliation_table(cleaned_df, qi, di): with the fitted parameters
\* when the fit returned, with parameters of the caller's choosing otherwise
BuildReconciliationTable ==
    /\ pc = "fitted"
    /\ \E p \in FitParams :
          /\ fit.status = "returned" => (p[1] = fit.qi /\ p[2] = fit.di)
          /\ recon_df' = build_reconciliation_table(cleaned_df, p[1], p[2])
    /\ cleaned_df' = ArgumentAfter(cleaned_df, recon_df')
    /\ pc' = "reconciled"
    /\ UNCHANGED <<fit, fiscal, audit, summary, sweep, utcnow, pipeline_runs>>

\* calculate_fiscal_impact(recon_df, price_per_barrel=price)
CalculateFiscalImpact ==
    /\ pc = "reconciled"
    /\ \E price \in Prices :
          fiscal' = [status |-> "returned", price_per_barrel |-> price,
                     df |-> calculate_fiscal_impact(recon_df, price)]
    /\ recon_df' = ArgumentAfter(recon_df, fiscal'.df)
    /\ pc' = "fiscal"
    /\ UNCHANGED <<cleaned_df, fit, audit, summary, sweep, utcnow, pipeline_runs>>

\* run_governance_audit(fiscal_df, threshold_pct=threshold)
RunGovernanceAudit ==
    /\ pc = "fiscal"
    /\ \E threshold \in Thresholds :
          audit' = run_governance_audit(fiscal.df, threshold)
    /\ fiscal' = [fiscal EXCEPT !.df = ArgumentAfter(fiscal.df, audit'.audit_df)]
    /\ pc' = "audited"
    /\ UNCHANGED <<cleaned_df, fit, recon_df, summary, sweep, utcnow, pipeline_runs>>

\* generate_fiscal_summary(fiscal_df, gov_flags, price_per_barrel)
GenerateFiscalSummary ==
    /\ pc = "audited"
    /\ summary' = generate_fiscal_summary(fiscal.df, audit.flags,
                                          fiscal.price_per_barrel)
    /\ pc' = "summarised"
    \* the function only reads fiscal_df and governance_flags
    /\ UNCHANGED <<cleaned_df, fit, recon_df, fiscal, audit, sweep,
                   utcnow, pipeline_runs>>

\* sensitivity_sweep(recon_df) / sensitivity_sweep(recon_df, price_scenarios=...)
SensitivitySweep ==
    /\ pc = "reconciled"
    /\ \E arg \in ScenarioArgs :
          /\ sweep' = sensitivity_sweep(recon_df, arg)
          \* each scenario goes through calculate_fiscal_impact, which works
          \* on its own copy
          /\ recon_df' =
                IF Len(ScenariosOf(arg)) = 0 THEN recon_df
                ELSE ArgumentAfter(recon_df,
                        calculate_fiscal_impact(recon_df, ScenariosOf(arg)[1]))
    /\ pc' = "swept"
    /\ UNCHANGED <<cleaned_df, fit, fiscal, audit, summary, utcnow, pipeline_runs>>

Next ==
    \/ FitDeclineCurve
    \/ BuildReconciliationTable
    \/ CalculateFiscalImpact
    \/ RunGovernanceAudit
    \/ GenerateFiscalSummary
    \/ SensitivitySweep

Spec == Init /\ [][Next]_vars

---------------------------------------------------------------------------
(* State machine: two pipeline runs in one process.  Each run makes the    *)
(* calls calculate_fiscal_impact, run_governance_audit and                 *)
(* generate_fiscal_summary on its own table; the calls of the two runs     *)
(* interleave in any order and the ambient clock advances between calls.   *)

\* the reconciliation table a run is started on
StartedRun(series) ==
    [NoRun EXCEPT
        !.pc = "reconciled",
        !.recon_df = build_reconciliation_table(
                         [i \in 1..Len(series) |-> CleanedRow(i, series[i])],
                         100000, 0)]

InitRuns ==
    /\ cleaned_df = << >>
    /\ fit = NoFit
    /\ recon_df = << >>
    /\ fiscal = NoFiscal
    /\ audit = NoAudit
    /\ summary = NoSummary
    /\ sweep = NoSweep
    /\ pc = "idle"
    /\ utcnow = 0
    /\ \E series \in [RunIds -> RunSeries] :
          pipeline_runs = [r \in RunIds |-> StartedRun(series[r])]

single == <<cleaned_df, fit, recon_df, fiscal, audit, summary, sweep, pc>>

\* datetime.utcnow() moves on
Tick ==
    /\ utcnow + 1 \in Ticks
    /\ utcnow' = utcnow + 1
    /\ UNCHANGED <<single, pipeline_runs>>

\* run r: calculate_fiscal_impact(recon_df, price_per_barrel=price)
RunFiscal(r) ==
    /\ pipeline_runs[r].pc = "reconciled"
    /\ \E price \in RunPrices :
          pipeline_runs' = [pipeline_runs EXCEPT
                     ![r].pc = "fiscal",
                     ![r].price_per_barrel = price,
                     ![r].fiscal_df =
                         calculate_fiscal_impact(pipeline_runs[r].recon_df, price),
                     ![r].recon_df =
                         ArgumentAfter(pipeline_runs[r].recon_df,
                             calculate_fiscal_impact(pipeline_runs[r].recon_df, price))]
    /\ UNCHANGED <<single, utcnow>>

\* run r: run_governance_audit(fiscal_df, threshold_pct=threshold)
RunAudit(r) ==
    /\ pipeline_runs[r].pc = "fiscal"
    /\ \E threshold \in RunThresholds :
          pipeline_runs' = [pipeline_runs EXCEPT
                     ![r].pc = "audited",
                     ![r].threshold_pct = threshold,
                     ![r].flags =
                         run_governance_audit(pipeline_runs[r].fiscal_df, threshold).flags]
    /\ UNCHANGED <<single, utcnow>>

\* run r: generate_fiscal_summary(fiscal_df, gov_flags, price_per_barrel)
RunSummary(r) ==
    /\ pipeline_runs[r].pc = "audited"
    /\ pipeline_runs' = [pipeline_runs EXCEPT
                  ![r].pc = "summarised",
                  ![r].summary =
                      generate_fiscal_summary(pipeline_runs[r].fiscal_df, pipeline_runs[r].flags,
                                              pipeline_runs[r].price_per_barrel)]
    /\ UNCHANGED <<single, utcnow>>

NextRuns ==
    \/ Tick
    \/ \E r \in RunIds : RunFiscal(r)
    \/ \E r \in RunIds : RunAudit(r)
    \/ \E r \in RunIds : RunSummary(r)

SpecRuns == InitRuns /\ [][NextRuns]_vars

---------------------------------------------------------------------------
(* Vocabulary of the properties, read off the tables alone *)

FiscalReturned  == pc \in {"fiscal", "audited", "summarised"}
AuditReturned   == pc \in {"audited", "summarised"}
ReconReturned   == pc \in {"reconciled", "fiscal", "audited", "summarised", "swept"}
SummaryEnded    == pc = "summarised"
SweepEnded      == pc = "swept"

\* the run is the dashboard's: the fit returned, price and threshold are positive
ValidRun ==
    /\ fit.status = "returned"
    /\ fiscal.price_per_barrel > 0
    /\ audit.threshold_pct > 0

\* positions of the fiscal table that are producing (non-shut-in) months
ProducingPos == {i \in 1..Len(fiscal.df) : ~fiscal.df[i].is_shut_in}

\* producing months whose unrounded |variance_pct| is above the threshold
BreachPos ==
    {i \in ProducingPos :
        \/ fiscal.df[i].variance_pct > audit.threshold_pct
        \/ -fiscal.df[i].variance_pct > audit.threshold_pct}

\* every producing month from position a to position b breaches
AllBreachBetween(a, b) == \A k \in ProducingPos : (a <= k /\ k <= b) => k \in BreachPos

\* breaching producing months of the run up to and including position i
ConsecOf(i) ==
    Cardinality({k \in BreachPos : k <= i /\ AllBreachBetween(k, i)})

\* length of the whole maximal run that holds position i
RunSize(i) ==
    ConsecOf(i) + Cardinality({k \in BreachPos : i < k /\ AllBreachBetween(i, k)})

\* the flags emitted for the month at position i
FlagsFor(i) ==
    {k \in 1..Len(audit.flags) :
        audit.flags[k].report_month = fiscal.df[i].report_month}

\* the run counter the audit kept for the month at position i
RecordedConsec(i) ==
    LET a == CHOOSE x \in 1..Len(audit.audit_df) :
                 audit.audit_df[x].report_month = fiscal.df[i].report_month
    IN  audit.consecutive_runs[a]

---------------------------------------------------------------------------
(* C1 *)

\* C1: in the table returned by calculate_fiscal_impact, revenue_exposure is
\* exactly 0 for a shut-in record, whatever its variance, and variance x price
\* for a record that is not shut-in.
C1_ExposureZeroWhenShutIn ==
    FiscalReturned =>
        \A i \in 1..Len(fiscal.df) :
            LET r == fiscal.df[i]
            IN  /\ r.is_shut_in => r.revenue_exposure_gbp = 0
                /\ ~r.is_shut_in =>
                      r.revenue_exposure_gbp = r.variance_boe * fiscal.price_per_barrel

\* a returned table with a shut-in record of non-zero variance at a non-zero
\* price, next to a producing record with non-zero exposure
C1_Witness ==
    /\ FiscalReturned
    /\ fiscal.price_per_barrel > 0
    /\ \E i \in 1..Len(fiscal.df) :
          /\ fiscal.df[i].is_shut_in
          /\ fiscal.df[i].variance_boe # 0
          /\ fiscal.df[i].revenue_exposure_gbp = 0
    /\ \E i \in 1..Len(fiscal.df) :
          /\ ~fiscal.df[i].is_shut_in
          /\ fiscal.df[i].revenue_exposure_gbp # 0

---------------------------------------------------------------------------
(* C2 *)

\* C2: calculate_fiscal_impact rejects a non-positive price: with
\* price_per_unit <= 0 the call ends in an invalid-price error and returns no
\* fiscal sequence.
C2_NonPositivePriceRejected ==
    (FiscalReturned /\ fit.status = "returned" /\ fiscal.price_per_barrel <= 0) =>
        (fiscal.status = "InvalidPriceError" /\ fiscal.df = << >>)

---------------------------------------------------------------------------
(* C3 *)

\* C3: run_governance_audit rejects a non-positive threshold: with
\* threshold_pct <= 0 the call ends in an invalid-threshold error and returns
\* no flag list.
C3_NonPositiveThresholdRejected ==
    (/\ AuditReturned
     /\ fit.status = "returned"
     /\ fiscal.price_per_barrel > 0
     /\ audit.threshold_pct <= 0) =>
        (audit.status = "InvalidThresholdError" /\ audit.flags = << >>)

---------------------------------------------------------------------------
(* C4 *)

\* C4: every flag returned by run_governance_audit has, in its own recorded
\* variance_pct, an absolute value above threshold_pct.
C4_RecordedVariancePctAboveThreshold ==
    (AuditReturned /\ ValidRun) =>
        \A k \in 1..Len(audit.flags) :
            \/ audit.flags[k].variance_pct > audit.threshold_pct
            \/ -audit.flags[k].variance_pct > audit.threshold_pct

---------------------------------------------------------------------------
(* C5 *)

\* C5 (as stated): when three or more consecutive producing months all breach,
\* every flag of a month of that run is HIGH, the first and second included.
C5_WholeRunHigh ==
    (AuditReturned /\ ValidRun) =>
        \A i \in BreachPos :
            RunSize(i) >= 3 =>
                \A k \in FlagsFor(i) : audit.flags[k].severity = "HIGH"

\* C5 (amended): when three or more consecutive producing months all breach,
\* the flag of the third and of every later month of the run is HIGH, and the
\* flags of the first and second months of the run are not HIGH.
C5_RunHighFromThirdMonth ==
    AuditReturned =>
        \A i \in BreachPos :
            RunSize(i) >= 3 =>
                /\ FlagsFor(i) # {}
                /\ \A k \in FlagsFor(i) :
                      (audit.flags[k].severity = "HIGH") <=> (ConsecOf(i) >= 3)

\* a run of three breaching producing months: its first flag not HIGH, its
\* third flag HIGH
C5_Witness ==
    /\ AuditReturned
    /\ ValidRun
    /\ \E i, j \in BreachPos :
          /\ RunSize(i) >= 3 /\ ConsecOf(i) = 1
          /\ i < j /\ AllBreachBetween(i, j) /\ ConsecOf(j) = 3
          /\ \E k \in FlagsFor(i) : audit.flags[k].severity # "HIGH"
          /\ \E k \in FlagsFor(j) : audit.flags[k].severity = "HIGH"

---------------------------------------------------------------------------
(* C6 *)

\* C6: the severity of every flag depends only on the flagged record's own
\* run length consec (breaching producing records ending at and including it)
\* and its own unrounded |variance_pct| abs_var: HIGH when consec >= 3,
\* otherwise MEDIUM when consec >= 2 or abs_var > 25, otherwise LOW.
C6_SeverityFromOwnRunAndVariance ==
    AuditReturned =>
        \A i \in BreachPos :
            \A k \in FlagsFor(i) :
                LET consec  == ConsecOf(i)
                    v       == fiscal.df[i].variance_pct
                    abs_var == IF v < 0 THEN -v ELSE v
                    sev     == audit.flags[k].severity
                IN  /\ (consec >= 3) => sev = "HIGH"
                    /\ (consec < 3 /\ (consec >= 2 \/ abs_var > 25000))
                          => sev = "MEDIUM"
                    /\ (consec < 2 /\ abs_var <= 25000) => sev = "LOW"

\* one audit with a solitary breach of exactly 25 % flagged LOW, and later the
\* second month of a run, itself at most 25 %, flagged MEDIUM
C6_Witness ==
    /\ AuditReturned
    /\ ValidRun
    /\ \E i, j \in BreachPos :
          /\ ConsecOf(i) = 1 /\ RunSize(i) = 1
          /\ fiscal.df[i].variance_pct = 25000
          /\ \E k \in FlagsFor(i) : audit.flags[k].severity = "LOW"
          /\ ConsecOf(j) = 2
          /\ fiscal.df[j].variance_pct <= 25000
          /\ fiscal.df[j].variance_pct >= -25000
          /\ \E k \in FlagsFor(j) : audit.flags[k].severity = "MEDIUM"

---------------------------------------------------------------------------
(* C7 *)

\* C7: run_governance_audit emits exactly one flag for each non-shut-in record
\* with |variance_pct| > threshold_pct and none for any other record (shut-in
\* records and records exactly at the threshold are not flagged); when nothing
\* breaches, it returns the empty list and no error.
C7_OneFlagPerBreachingProducingRecord ==
    AuditReturned =>
        /\ audit.status = "returned"
        /\ \A i \in 1..Len(fiscal.df) :
              Cardinality(FlagsFor(i)) = IF i \in BreachPos THEN 1 ELSE 0
        /\ Len(audit.flags) = Cardinality(BreachPos)
        /\ (BreachPos = {}) => audit.flags = << >>

\* an audit that flags one record and passes over a shut-in record and a
\* record exactly at the threshold
C7_Witness ==
    /\ AuditReturned
    /\ ValidRun
    /\ Len(audit.flags) = 1
    /\ \E i \in 1..Len(fiscal.df) : fiscal.df[i].is_shut_in /\ FlagsFor(i) = {}
    /\ \E i \in ProducingPos :
          /\ -fiscal.df[i].variance_pct = audit.threshold_pct
          /\ FlagsFor(i) = {}

---------------------------------------------------------------------------
(* C8 *)

\* C8: the returned flags are in chronological order of their records and
\* their flag_id values are exactly 1, 2, ..., n (numbering counts flags, not
\* records).
C8_FlagIdsSequentialChronological ==
    AuditReturned =>
        /\ \A k \in 1..Len(audit.flags) : audit.flags[k].flag_id = k
        /\ \A k, l \in 1..Len(audit.flags) :
              k < l => audit.flags[k].report_month < audit.flags[l].report_month

\* two flags, the first of them for a record that is not the first producing
\* record of the table
C8_Witness ==
    /\ AuditReturned
    /\ ValidRun
    /\ Len(audit.flags) = 2
    /\ audit.flags[1].flag_id = 1
    /\ \E i \in ProducingPos :
          i \notin BreachPos /\ fiscal.df[i].report_month < audit.flags[1].report_month

---------------------------------------------------------------------------
(* C9 *)

\* C9: breach runs are counted over the producing months only: a breach right
\* before a shut-in gap and a breach right after it are consecutive, the later
\* one having a run counter one greater than the earlier one.
C9_ShutInGapKeepsRun ==
    AuditReturned =>
        \A i, j \in BreachPos :
            (/\ i + 1 < j
             /\ \A k \in (i + 1)..(j - 1) : fiscal.df[k].is_shut_in)
            => RecordedConsec(j) = RecordedConsec(i) + 1

\* a breach, a shut-in month, a breach: the second breach has counter 2 and a
\* MEDIUM flag although its own variance is at most 25 %
C9_Witness ==
    /\ AuditReturned
    /\ ValidRun
    /\ \E i, j \in BreachPos :
          /\ j = i + 2
          /\ fiscal.df[i + 1].is_shut_in
          /\ RecordedConsec(i) = 1
          /\ RecordedConsec(j) = 2
          /\ fiscal.df[j].variance_pct = -20000
          /\ \E k \in FlagsFor(j) : audit.flags[k].severity = "MEDIUM"

---------------------------------------------------------------------------
(* C10 *)

\* C10: fit_decline_curve ends in the insufficient-data error, without
\* attempting a fit, whenever fewer than 3 observations have
\* actual_quantity > 0, and does not raise that error with 3 or more.
C10_InsufficientDataBelowThree ==
    LET producing == {i \in 1..Len(cleaned_df) : cleaned_df[i].total_boe > 0}
    IN  pc # "cleaned" =>
            /\ Cardinality(producing) < 3 =>
                  (fit.status = "ValueError" /\ ~fit.curve_fit_called)
            /\ Cardinality(producing) >= 3 =>
                  (fit.status # "ValueError" /\ fit.curve_fit_called)

\* a series with exactly 2 non-zero months (and a shut-in month) whose fit failed
C10_Witness ==
    /\ pc = "fitted"
    /\ Len(cleaned_df) = 3
    /\ Cardinality({i \in 1..Len(cleaned_df) : cleaned_df[i].total_boe > 0}) = 2
    /\ fit.status = "ValueError"

---------------------------------------------------------------------------
(* C11 *)

\* C11: generate_fiscal_summary fails with an empty-sequence error when the
\* fiscal sequence is empty, and only then: for every non-empty fiscal
\* sequence, one made of shut-in months alone included, it returns a summary.
C11_SummaryFailsOnlyOnEmpty ==
    SummaryEnded =>
        /\ Len(fiscal.df) = 0 => summary.status = "IndexError"
        /\ Len(fiscal.df) > 0 => summary.status = "returned"

\* the summary of an empty fiscal table has ended in the error
C11_Witness ==
    /\ SummaryEnded
    /\ fiscal.df = << >>
    /\ summary.status = "IndexError"

---------------------------------------------------------------------------
(* C12 *)

\* C12: cumulative_exposure at position i is the sum of revenue_exposure over
\* all positions up to i; a shut-in record adds 0, so its running total equals
\* that of the record before it (0 when it is the first).
C12_CumulativeIsRunningSum ==
    FiscalReturned =>
        \A i \in 1..Len(fiscal.df) :
            LET before == IF i = 1 THEN 0
                          ELSE fiscal.df[i - 1].cumulative_exposure_gbp
            IN  /\ fiscal.df[i].cumulative_exposure_gbp =
                      before + fiscal.df[i].revenue_exposure_gbp
                /\ fiscal.df[i].is_shut_in =>
                      fiscal.df[i].cumulative_exposure_gbp = before

\* exposure, shut-in month, exposure: the total is carried over the shut-in
\* month and keeps growing after it
C12_Witness ==
    /\ FiscalReturned
    /\ fiscal.price_per_barrel > 0
    /\ \E i \in 2..(Len(fiscal.df) - 1) :
          /\ fiscal.df[i].is_shut_in
          /\ fiscal.df[i - 1].cumulative_exposure_gbp # 0
          /\ fiscal.df[i].cumulative_exposure_gbp =
                fiscal.df[i - 1].cumulative_exposure_gbp
          /\ fiscal.df[i + 1].revenue_exposure_gbp # 0
          /\ fiscal.df[i + 1].cumulative_exposure_gbp =
                fiscal.df[i - 1].cumulative_exposure_gbp
                + fiscal.df[i + 1].revenue_exposure_gbp

---------------------------------------------------------------------------
(* C13 *)

\* C13: price linearity. The table computed at price q and the table that
\* calculate_fiscal_impact gives for the same reconciliation sequence at any
\* price p > 0 are in the ratio q : p, in every non-shut-in revenue_exposure
\* and in the final cumulative_exposure (k = q / p, stated cross-multiplied).
C13_PriceLinearity ==
    (FiscalReturned /\ fiscal.price_per_barrel > 0) =>
        \A p \in {x \in Prices : x > 0} :
            LET q     == fiscal.price_per_barrel
                other == calculate_fiscal_impact(recon_df, p)
                n     == Len(fiscal.df)
            IN  /\ Len(other) = n
                /\ \A i \in 1..n :
                      ~fiscal.df[i].is_shut_in =>
                          fiscal.df[i].revenue_exposure_gbp * p
                              = other[i].revenue_exposure_gbp * q
                /\ n > 0 =>
                      fiscal.df[n].cumulative_exposure_gbp * p
                          = other[n].cumulative_exposure_gbp * q

\* a table priced at 20 whose final cumulative exposure is non-zero and twice
\* the one the same sequence has at price 10
C13_Witness ==
    /\ FiscalReturned
    /\ fiscal.price_per_barrel = 20
    /\ Len(fiscal.df) > 1
    /\ fiscal.df[Len(fiscal.df)].cumulative_exposure_gbp # 0
    /\ fiscal.df[Len(fiscal.df)].cumulative_exposure_gbp =
          2 * calculate_fiscal_impact(recon_df, 10)[Len(recon_df)]
                  .cumulative_exposure_gbp

---------------------------------------------------------------------------
(* C14 *)

\* C14: build_reconciliation_table returns exactly one record per input
\* observation, in input order, and t is the zero-based position 0 .. n-1 of
\* the record, whatever period number the observation carries.
C14_OneRecordPerObservationZeroBasedT ==
    ReconReturned =>
        /\ Len(recon_df) = Len(cleaned_df)
        /\ \A pos \in 1..Len(recon_df) :
              /\ recon_df[pos].report_month = cleaned_df[pos].report_month
              /\ recon_df[pos].actual_boe = cleaned_df[pos].total_boe
              /\ recon_df[pos].is_shut_in = cleaned_df[pos].is_shut_in
              /\ recon_df[pos].t_month = pos - 1

\* a table of at least three records: the third has t = 2 although the
\* observation carries period number 3
C14_Witness ==
    /\ ReconReturned
    /\ Len(recon_df) >= 3
    /\ recon_df[1].t_month = 0
    /\ recon_df[3].t_month = 2
    /\ cleaned_df[3].report_month = 3

---------------------------------------------------------------------------
(* C15 *)

\* C15: in every record of build_reconciliation_table, shut-in records
\* included, variance = actual_quantity - forecast_quantity; the variance of a
\* shut-in month is not zeroed at this stage.
C15_VarianceIsActualMinusForecast ==
    ReconReturned =>
        \A pos \in 1..Len(recon_df) :
            /\ recon_df[pos].variance_boe =
                  recon_df[pos].actual_boe - recon_df[pos].forecast_boe
            /\ (recon_df[pos].is_shut_in /\ recon_df[pos].forecast_boe > 0) =>
                  recon_df[pos].variance_boe < 0

\* a shut-in record whose variance is the whole (positive) forecast, negated
C15_Witness ==
    /\ ReconReturned
    /\ \E pos \in 1..Len(recon_df) :
          /\ recon_df[pos].is_shut_in
          /\ recon_df[pos].forecast_boe > 0
          /\ recon_df[pos].variance_boe = -recon_df[pos].forecast_boe

---------------------------------------------------------------------------
(* C16 *)

\* C16: in every record of build_reconciliation_table, variance_pct is
\* 100 x variance / forecast_quantity when forecast_quantity > 0 (here: that
\* quotient in thousandths of a percent, with the sign of the variance) and
\* exactly 0 when forecast_quantity is 0; it is never infinite.
C16_VariancePctGuardedQuotient ==
    ReconReturned =>
        \A pos \in 1..Len(recon_df) :
            LET r == recon_df[pos]
                V == IF r.variance_boe < 0 THEN -r.variance_boe ELSE r.variance_boe
                m == IF r.variance_pct < 0 THEN -r.variance_pct ELSE r.variance_pct
                F == r.forecast_boe
            IN  /\ F = 0 => r.variance_pct = 0
                /\ F > 0 =>
                      /\ m \div 100 = (V * 1000) \div F
                      /\ m % 100 = (((V * 1000) % F) * 100) \div F
                      /\ (r.variance_boe < 0) => r.variance_pct <= 0
                      /\ (r.variance_boe > 0) => r.variance_pct >= 0
                /\ m <= 100 * 1000 * 1000

\* a record with forecast 0 and a non-zero variance whose variance_pct is 0
C16_Witness ==
    /\ ReconReturned
    /\ \E pos \in 1..Len(recon_df) :
          /\ recon_df[pos].forecast_boe = 0
          /\ recon_df[pos].variance_boe > 0
          /\ recon_df[pos].variance_pct = 0

---------------------------------------------------------------------------
(* C17 *)

\* the rows of a returned sweep: one per candidate price, in the order given,
\* each holding the last cumulative_exposure of calculate_fiscal_impact at
\* that price
SweepRowsAsClaimed ==
    /\ sweep.status = "returned"
    /\ Len(sweep.rows) = Len(sweep.price_scenarios)
    /\ \A k \in 1..Len(sweep.rows) :
          /\ sweep.rows[k].price_per_barrel_gbp = sweep.price_scenarios[k]
          /\ Len(recon_df) > 0 =>
                sweep.rows[k].total_revenue_at_risk_gbp =
                    calculate_fiscal_impact(recon_df, sweep.price_scenarios[k])
                        [Len(recon_df)].cumulative_exposure_gbp

---------------------------------------------------------------------------
(* C18 *)

---------------------------------------------------------------------------
(* C19 *)

\* C19: in every returned summary the total month count is the length of the
\* fiscal sequence, the shut-in count is the number of shut-in records, and
\* shut-in count + producing count = total month count.
C19_SummaryCounts ==
    (SummaryEnded /\ summary.status = "returned") =>
        /\ summary.months_analysed = Len(fiscal.df)
        /\ summary.months_shut_in =
              Cardinality({i \in 1..Len(fiscal.df) : fiscal.df[i].is_shut_in})
        /\ summary.months_shut_in + summary.producing_months
              = summary.months_analysed

\* a summary over shut-in and producing months together
C19_Witness ==
    /\ SummaryEnded
    /\ summary.status = "returned"
    /\ summary.months_shut_in = 1
    /\ summary.producing_months = 3
    /\ summary.months_analysed = 4

---------------------------------------------------------------------------
(* C20 *)

RECURSIVE ProducingVarianceSum(_)
\* sum of variance over the non-shut-in records among the first i records
ProducingVarianceSum(i) ==
    IF i = 0 THEN 0
    ELSE ProducingVarianceSum(i - 1)
         + (IF fiscal.df[i].is_shut_in THEN 0 ELSE fiscal.df[i].variance_boe)

---------------------------------------------------------------------------
(* C21 *)

\* C21: the forecast at time offset t = 0 equals qi exactly for every qi and
\* di, so the first record of every reconciliation table built with the fitted
\* parameters has t = 0 and forecast_quantity = qi.
C21_ForecastAtZeroIsQi ==
    /\ \A p \in FitParams : arps_exponential(0, p[1], p[2]) = p[1]
    /\ (ReconReturned /\ fit.status = "returned" /\ Len(recon_df) > 0) =>
          /\ recon_df[1].t_month = 0
          /\ recon_df[1].forecast_boe = fit.qi

\* a table built with qi = 100000 and a non-zero decline: the first forecast
\* is qi and the second is already below it
C21_Witness ==
    /\ ReconReturned
    /\ fit.status = "returned"
    /\ fit.qi = 100000
    /\ fit.di = 50
    /\ Len(recon_df) >= 2
    /\ recon_df[1].forecast_boe = 100000
    /\ recon_df[2].forecast_boe < 100000

---------------------------------------------------------------------------
(* Vocabulary of the properties of SpecRuns *)

\* run r has been through calculate_fiscal_impact / run_governance_audit
RunFiscalDone(r) == pipeline_runs[r].pc \in {"fiscal", "audited", "summarised"}
RunAuditDone(r)  == pipeline_runs[r].pc \in {"audited", "summarised"}

\* a flag without its creation timestamp
FlagCore(f) == [f EXCEPT !.timestamp = 0]

---------------------------------------------------------------------------
(* C22 *)

\* C22: two invocations of run_governance_audit with the same fiscal sequence
\* and the same threshold return flag lists that are equal in every field,
\* the timestamp included.
C22_SameInputsSameFlags ==
    \A r1, r2 \in RunIds :
        (/\ RunAuditDone(r1)
         /\ RunAuditDone(r2)
         /\ pipeline_runs[r1].fiscal_df = pipeline_runs[r2].fiscal_df
         /\ pipeline_runs[r1].threshold_pct = pipeline_runs[r2].threshold_pct)
        => pipeline_runs[r1].flags = pipeline_runs[r2].flags

---------------------------------------------------------------------------
(* C23 *)

\* C23: when the calls of two runs interleave in any order, each run's fiscal
\* sequence (cumulative exposures included) is the one calculate_fiscal_impact
\* gives for its own table and price, its flags have the severities and every
\* other field the audit of its own fiscal sequence gives, and its flag_ids
\* are 1, 2, ... whatever the other run has emitted.
C23_RunsIndependent ==
    \A r \in RunIds :
        /\ RunFiscalDone(r) =>
              pipeline_runs[r].fiscal_df =
                  calculate_fiscal_impact(pipeline_runs[r].recon_df,
                                          pipeline_runs[r].price_per_barrel)
        /\ RunAuditDone(r) =>
              LET alone == run_governance_audit(pipeline_runs[r].fiscal_df,
                                                pipeline_runs[r].threshold_pct).flags
                  flags == pipeline_runs[r].flags
              IN  /\ Len(flags) = Len(alone)
                  /\ \A k \in 1..Len(flags) :
                        /\ flags[k].flag_id = k
                        /\ flags[k].severity = alone[k].severity
                        /\ flags[k].report_month = alone[k].report_month
                        /\ flags[k].revenue_exposure_gbp
                              = alone[k].revenue_exposure_gbp

\* run 1 was audited at tick 0 and holds three flags; run 2, on another table
\* and another price, was audited after it and its numbering starts at 1
C23_Witness ==
    /\ RunAuditDone(1)
    /\ RunAuditDone(2)
    /\ pipeline_runs[1].recon_df # pipeline_runs[2].recon_df
    /\ pipeline_runs[1].price_per_barrel # pipeline_runs[2].price_per_barrel
    /\ Len(pipeline_runs[1].flags) = 3
    /\ pipeline_runs[1].flags[1].timestamp = 0
    /\ Len(pipeline_runs[2].flags) = 2
    /\ pipeline_runs[2].flags[1].timestamp = 1
    /\ pipeline_runs[2].flags[1].flag_id = 1
    /\ pipeline_runs[2].flags[2].flag_id = 2

---------------------------------------------------------------------------
(* C24 *)

\* C24: build_reconciliation_table, calculate_fiscal_impact,
\* run_governance_audit, generate_fiscal_summary and sensitivity_sweep leave
\* the table passed to them with the same records, fields and values.
C24_InputsUnchanged ==
    [][/\ (pc = "fitted" /\ pc' = "reconciled") => cleaned_df' = cleaned_df
       /\ (pc = "reconciled" /\ pc' = "fiscal") => recon_df' = recon_df
       /\ (pc = "fiscal" /\ pc' = "audited") => fiscal'.df = fiscal.df
       /\ (pc = "audited" /\ pc' = "summarised") =>
             (fiscal'.df = fiscal.df /\ audit'.flags = audit.flags)
       /\ (pc = "reconciled" /\ pc' = "swept") => recon_df' = recon_df]_vars

\* after a whole run over a series with a shut-in month: the cleaned table has
\* no forecast column, the reconciliation table no revenue_exposure column,
\* and the fiscal table still holds the shut-in month the audit filtered out
\* of its copy
C24_Witness ==
    /\ pc = "summarised"
    /\ Len(cleaned_df) >= 2
    /\ "forecast_boe" \notin DOMAIN cleaned_df[1]
    /\ "forecast_boe" \in DOMAIN recon_df[1]
    /\ "revenue_exposure_gbp" \notin DOMAIN recon_df[1]
    /\ "revenue_exposure_gbp" \in DOMAIN fiscal.df[1]
    /\ Len(audit.flags) > 0
    /\ Len(audit.audit_df) < Len(fiscal.df)
    /\ Len(fiscal.df) = Len(cleaned_df)

---------------------------------------------------------------------------
(* C25 *)

\* the producing month at position i of the audit's table breaches
AuditRowBreaches(i) ==
    \/ audit.audit_df[i].variance_pct > audit.threshold_pct
    \/ -audit.audit_df[i].variance_pct > audit.threshold_pct

\* C25: in the scan over the producing months the consecutive-breach counter
\* is 0 before the first record, previous + 1 on a breaching record and 0 on a
\* non-breaching one; so a breaching record right after a non-breaching
\* producing record has consec = 1, however long the earlier runs were.
C25_CounterIncrementsAndResets ==
    (AuditReturned /\ audit.consecutive_runs # << >>) =>
        /\ Len(audit.consecutive_runs) = Len(audit.audit_df)
        /\ \A i \in 1..Len(audit.audit_df) :
              LET previous == IF i = 1 THEN 0 ELSE audit.consecutive_runs[i - 1]
              IN  /\ AuditRowBreaches(i) =>
                        audit.consecutive_runs[i] = previous + 1
                  /\ ~AuditRowBreaches(i) => audit.consecutive_runs[i] = 0
                  /\ (i > 1 /\ AuditRowBreaches(i) /\ ~AuditRowBreaches(i - 1)) =>
                        audit.consecutive_runs[i] = 1

\* a run of two breaches, a producing month within the threshold, and a new
\* breach: the counter reads 1, 2, 0, 1
C25_Witness ==
    /\ AuditReturned
    /\ audit.consecutive_runs = <<1, 2, 0, 1>>
    /\ Len(audit.flags) = 3
    /\ audit.flags[3].severity = "LOW"

---------------------------------------------------------------------------
(* C26 *)

\* the order LOW < MEDIUM < HIGH
SeverityRank(severity) ==
    CASE severity = "LOW" -> 1 [] severity = "MEDIUM" -> 2 [] severity = "HIGH" -> 3

\* the position in the fiscal table of the month flag k is about
FlagPos(k) ==
    CHOOSE i \in 1..Len(fiscal.df) :
        fiscal.df[i].report_month = audit.flags[k].report_month

\* C26: within one maximal run of consecutive breaching producing months the
\* severities never decrease from one flag to the next: the first flag of the
\* run is LOW or MEDIUM, the second MEDIUM, every later one HIGH; and every
\* HIGH flag has flag_id >= 3.
C26_SeverityNeverDecreasesInRun ==
    AuditReturned =>
        \A k \in 1..Len(audit.flags) :
            LET in_run == ConsecOf(FlagPos(k))
            IN  /\ in_run = 1 => audit.flags[k].severity \in {"LOW", "MEDIUM"}
                /\ in_run = 2 => audit.flags[k].severity = "MEDIUM"
                /\ in_run >= 3 => audit.flags[k].severity = "HIGH"
                /\ (k > 1 /\ in_run >= 2) =>
                      SeverityRank(audit.flags[k - 1].severity)
                          <= SeverityRank(audit.flags[k].severity)
                /\ audit.flags[k].severity = "HIGH" =>
                      audit.flags[k].flag_id >= 3

\* a run that opens with a variance above 25 %: MEDIUM, MEDIUM, HIGH
C26_Witness ==
    /\ AuditReturned
    /\ Len(audit.flags) = 3
    /\ ConsecOf(FlagPos(1)) = 1
    /\ ConsecOf(FlagPos(3)) = 3
    /\ audit.flags[1].severity = "MEDIUM"
    /\ audit.flags[2].severity = "MEDIUM"
    /\ audit.flags[3].severity = "HIGH"
    /\ audit.flags[3].flag_id = 3

---------------------------------------------------------------------------
(* C27 *)

\* a flag without the two fields that are not decided by the table and the
\* threshold: the exposure (price) and the creation timestamp (clock)
FlagUnpriced(f) == [FlagCore(f) EXCEPT !.revenue_exposure_gbp = 0]

---------------------------------------------------------------------------
(* C28 *)

\* the months flagged in a flag list
FlaggedMonths(flags) == {flags[k].report_month : k \in 1..Len(flags)}

\* C28: for one fiscal sequence and thresholds 0 < T1 <= T2, the periods
\* flagged at T2 are among those flagged at T1, and a period flagged at both
\* has at T2 a run length consec no greater, and a severity no higher, than at
\* T1.  (T1 is the threshold of the audit made, T2 ranges over the thresholds.)
C28_ThresholdMonotone ==
    (AuditReturned /\ audit.threshold_pct > 0) =>
        \A T2 \in Thresholds :
            audit.threshold_pct <= T2 =>
                LET at2 == run_governance_audit(fiscal.df, T2)
                IN  /\ FlaggedMonths(at2.flags) \subseteq FlaggedMonths(audit.flags)
                    /\ \A k2 \in 1..Len(at2.flags) :
                          \A k1 \in 1..Len(audit.flags) :
                              at2.flags[k2].report_month
                                    = audit.flags[k1].report_month
                              => SeverityRank(at2.flags[k2].severity)
                                    <= SeverityRank(audit.flags[k1].severity)
                    /\ \A a \in 1..Len(at2.consecutive_runs) :
                          at2.consecutive_runs[a] > 0 =>
                              at2.consecutive_runs[a] <= audit.consecutive_runs[a]

\* an audit at 15 % that flags three months in a row, where the audit at 20 %
\* flags only the last of them: run length 1 instead of 3, LOW instead of HIGH
C28_Witness ==
    /\ AuditReturned
    /\ audit.threshold_pct = 15000
    /\ Len(audit.flags) = 3
    /\ audit.flags[3].severity = "HIGH"
    /\ LET at2 == run_governance_audit(fiscal.df, 20000)
       IN  /\ Len(at2.flags) = 1
           /\ at2.flags[1].report_month = audit.flags[3].report_month
           /\ at2.flags[1].severity = "LOW"

---------------------------------------------------------------------------
(* C29 *)

\* the position in run r's fiscal table of the month its flag k is about
RunFlagPos(r, k) ==
    CHOOSE i \in 1..Len(pipeline_runs[r].fiscal_df) :
        pipeline_runs[r].fiscal_df[i].report_month
            = pipeline_runs[r].flags[k].report_month

\* flag k of run r opens a run: no producing month comes before its month, or
\* the nearest producing month before it is not flagged
RunFlagOpensRun(r, k) ==
    LET df     == pipeline_runs[r].fiscal_df
        before == {j \in 1..(RunFlagPos(r, k) - 1) : ~df[j].is_shut_in}
    IN  \/ before = {}
        \/ LET nearest == CHOOSE j \in before : \A j2 \in before : j2 <= j
           IN  df[nearest].report_month
                   \notin FlaggedMonths(pipeline_runs[r].flags)

\* C29: each flag's severity agrees with the variance_pct recorded in the same
\* flag (rounded to 2 decimals): a MEDIUM flag that is the first of its run
\* has recorded |variance_pct| > 25, and a LOW flag has recorded
\* |variance_pct| <= 25.
C29_SeverityAgreesWithRecordedVariance ==
    \A r \in RunIds :
        RunAuditDone(r) =>
            \A k \in 1..Len(pipeline_runs[r].flags) :
                LET flag == pipeline_runs[r].flags[k]
                IN  /\ (flag.severity = "MEDIUM" /\ RunFlagOpensRun(r, k)) =>
                          (flag.variance_pct > 25000 \/ -flag.variance_pct > 25000)
                    /\ flag.severity = "LOW" =>
                          (flag.variance_pct <= 25000 /\ -flag.variance_pct <= 25000)

---------------------------------------------------------------------------
(* C30 *)

\* C30: for a non-empty fiscal sequence in which every record is shut-in,
\* run_governance_audit returns the empty list and generate_fiscal_summary
\* returns a summary with producing count 0, total exposure 0, total variance
\* 0 and a numeric mean variance_pct (not a not-a-number value).
C30_AllShutInSummaryWellDefined ==
    (/\ SummaryEnded
     /\ Len(fiscal.df) > 0
     /\ \A i \in 1..Len(fiscal.df) : fiscal.df[i].is_shut_in)
    => /\ audit.flags = << >>
       /\ summary.status = "returned"
       /\ summary.producing_months = 0
       /\ summary.total_revenue_at_risk_gbp = 0
       /\ summary.total_variance_boe = 0
       /\ ~summary.avg_monthly_variance_pct.nan

====
